---- MODULE Spec2Model ----
(***************************************************************************)
(* Model of dotbot/lib/lh2.c: reverse_count_p recovers, from a 17-bit LFSR *)
(* register state and a polynomial index, the number of forward steps that *)
(* separate the state from the seed, walking the LFSR backwards one step   *)
(* at a time and short-cutting through the _end_buffers checkpoint table.  *)
(*                                                                         *)
(* One action is one pass through the body of the while loop (lines        *)
(* 106-121).  In Spec a forward generator drives the function with         *)
(* register states that lie on the cycle of the selected polynomial, and   *)
(* remembers how many forward steps produced them.  In SpecPair two calls  *)
(* are made one after the other, so that their results can be compared.    *)
(* In SpecStep one forward and one reverse step are applied, in both       *)
(* orders, to every 17-bit register value.                                 *)
(***************************************************************************)
EXTENDS Integers, Sequences, FiniteSets

VARIABLES
    index,        \* uint8_t index: the selected polynomial, 0..3
    s,            \* forward steps the generator has applied to the seed
    X,            \* register state of the generator after s forward steps
    pc,           \* "gen" (no call yet), "loop" (inside while), "done" (returned)
    bits,         \* uint32_t bits: the argument of the call
    buffer,       \* uint32_t buffer
    count,        \* uint32_t count
    result,       \* uint32_t result (parity accumulator), as it is at the loop head
    n,            \* passes through the while body made by the current call
    ret,          \* value returned by the call (meaningful when pc = "done")
    matched,      \* the idx for which line 117 held in the current call, in order
    prev          \* <<>> or <<bits, ret>> of an earlier call of the same run

\* b17, masked_buff, ii and idx are written before they are read in every
\* pass through the body: they carry nothing from one pass to the next and
\* are the LET names and parameters of the operators below.

vars == <<index, s, X, pc, bits, buffer, count, result, n, ret, matched, prev>>

-----------------------------------------------------------------------------
(* Bounds of the model *)

\* Calls are made on the generator states at most Window forward steps after
\* the seed or after a state the generator has in common with the table.
Window == 8

\* Passes through the while body the model follows in one call.
MaxIter == 8200

\* Pairs of calls are made on the register states at most PairWindow forward
\* steps after an entry of the table.
PairWindow == 2

-----------------------------------------------------------------------------
(* Fixed-width unsigned arithmetic *)

\* Every uint32_t of the model stays below 2^31: the counter never comes near
\* 2^32 within MaxIter passes and bit 31 of the argument is never drawn, so
\* nothing wraps and the words are natural numbers.

\* (x >> i) & 1
Bit(x, i) == (x \div 2 ^ i) % 2

\* x & (2^k - 1): the k lowest bits of x
LowBits(x, k) == x % (2 ^ k)

\* r ^ b for a single bit b: the lowest bit of r is flipped when b is 1
XorBit(r, b) == IF b = 1 THEN (IF r % 2 = 0 THEN r + 1 ELSE r - 1) ELSE r

-----------------------------------------------------------------------------
(* The constant tables *)

\* Faulty variant: one digit of the first tap mask mistyped (0x0001D358).
polynomials_Mistyped == <<119640, 97796, 130923, 81767>>

\* Faulty variant: bit 5 of the first tap mask set (0x0001D278).
polynomials_ExtraTap == <<119416, 97796, 130923, 81767>>

\* 0x0001D258, 0x00017E04, 0x0001FF6B, 0x00013F67
polynomials == <<119384, 97796, 130923, 81767>>

\* The binary literals of lines 17-94, written in decimal.
end_buffers == <<
    <<1, 87453, 71002, 104706, 51999, 74590, 83551, 123569,
      94619, 85278, 105232, 35743, 117493, 37815, 113053, 68971>>,
    <<1, 106942, 94012, 99695, 23662, 34356, 8862, 84945,
      77857, 59094, 18243, 95877, 25910, 36838, 72251, 31132>>,
    <<1, 14020, 47766, 104042, 58330, 93434, 91009, 70377,
      1259, 50555, 28783, 87864, 64895, 34730, 38659, 11758>>,
    <<1, 112534, 100365, 116246, 16012, 99059, 80778, 5752,
      30853, 40532, 46259, 129676, 27359, 60587, 8610, 12206>> >>

\* C arrays are indexed from 0, TLA+ tuples from 1.
Polynomial(p) == polynomials[p + 1]

\* Faulty variant: entry 15 of every row read from column 14, as if the last
\* entry of the table repeated the one before it.
EndBuffer_RepeatsEntry(p, idx) == end_buffers[p + 1][IF idx = 15 THEN 15 ELSE idx + 1]

EndBuffer(p, idx) == end_buffers[p + 1][idx + 1]

\* The positions ii < 17 at which _polynomials[p] has a 1.
PolynomialTaps == [p \in 0..3 |-> {ii \in 0..16 : Bit(Polynomial(p), ii) = 1}]

-----------------------------------------------------------------------------
(* reverse_count_p, line by line *)

\* Faulty variant: line 99 without the mask.
MaskInput_NoMask(b) == b

\* line 99: bits & 0x0001FFFFF (nine hexadecimal digits: the 21 low bits)
MaskInput(b) == LowBits(b, 21)

\* line 106: buffer & 0x00000001
NewestBit(buf) == LowBits(buf, 1)

\* line 107: (buffer & (0x0001FFFE)) >> 1: bits 1..16 of buffer, moved down
ShiftBack(buf) == (LowBits(buf, 17) - LowBits(buf, 1)) \div 2

\* lines 108-111: masked_buff = buffer & _polynomials[index], then
\* for (ii = 0; ii < 17; ii++) result ^= (masked_buff >> ii) & 1.
\* Bit ii of masked_buff is bit ii of buffer where the polynomial has a 1
\* and 0 elsewhere; the exclusive or of result with those single bits flips
\* the lowest bit of result once for each of them that is 1.
CumulativeSum(res, buf, p) ==
    LET ones == {ii \in PolynomialTaps[p] : Bit(buf, ii) = 1}
    IN  XorBit(res, Cardinality(ones) % 2)

\* Faulty variant: line 112 left out, the bit shifted out is not folded into
\* the bit put back at the top.
ReverseStep_NoNewestBit(p, buf, res) ==
    LET shifted == ShiftBack(buf)
        parity  == CumulativeSum(res, shifted, p)
    IN  shifted + parity * 65536

\* lines 106-113: one step backwards in time.  The shifted buffer is below
\* 2^16 and result << 16 has no bit below bit 16, so the | of line 113 is
\* their sum.
ReverseStep(p, buf, res) ==
    LET newest  == NewestBit(buf)
        shifted == ShiftBack(buf)
        parity  == XorBit(CumulativeSum(res, shifted, p), newest)
    IN  shifted + parity * 65536

\* Faulty variant: the - 1 of line 118 left out.
CheckpointCount_NoDecrement(cnt, idx) == cnt + 8192 * idx

\* Faulty variant: the spacing taken as 8191, the whole part of Period / 16.
CheckpointCount_Spacing8191(cnt, idx) == cnt + 8191 * idx - 1

\* Faulty variant: the index of the matched entry left out of the adjustment.
CheckpointCount_IgnoresIndex(cnt, idx) == cnt + 8192 - 1

\* Faulty variant: the adjusted count replaces the counter instead of adding to it.
CheckpointCount_Replaces(cnt, idx) == 8192 * idx - 1

\* Faulty variant: the adjustment of line 118 subtracts 2.
CheckpointCount_DoubleDecrement(cnt, idx) == cnt + 8192 * idx - 2

\* line 118: count + 8192 * idx - 1
CheckpointCount(cnt, idx) == cnt + 8192 * idx - 1

\* Faulty variant: entry 1 is never compared (the scan of line 116 starting at 2).
Matches_SkipsFirst(p, buf, idx) == idx > 1 /\ buf = EndBuffer(p, idx)

\* Faulty variant: entry 15 is never compared (the scan of line 116 ending at 14).
Matches_SkipsLast(p, buf, idx) == idx < 15 /\ buf = EndBuffer(p, idx)

\* line 117: (buffer ^ _end_buffers[index][idx]) == 0x00000000, which holds
\* exactly when the two words are equal
Matches(p, buf, idx) == buf = EndBuffer(p, idx)

\* Faulty variant: line 119 left out, the buffer is not set to the seed after
\* a match.
RECURSIVE CheckpointScan_KeepsBuffer(_, _, _, _)
CheckpointScan_KeepsBuffer(p, idx, cnt, buf) ==
    IF idx < 16
    THEN IF Matches(p, buf, idx)
         THEN CheckpointScan_KeepsBuffer(p, idx + 1, CheckpointCount(cnt, idx), buf)
         ELSE CheckpointScan_KeepsBuffer(p, idx + 1, cnt, buf)
    ELSE <<cnt, buf>>

\* lines 116-121: the scan of entries 1..15; there is no break, the scan goes
\* on with the buffer and the count an earlier match has set.
RECURSIVE CheckpointScan(_, _, _, _)
CheckpointScan(p, idx, cnt, buf) ==
    IF idx < 16
    THEN IF Matches(p, buf, idx)
         THEN CheckpointScan(p, idx + 1, CheckpointCount(cnt, idx), EndBuffer(p, 0))
         ELSE CheckpointScan(p, idx + 1, cnt, buf)
    ELSE <<cnt, buf>>

\* lines 116-121: the values of idx for which the condition of line 117 holds
\* in one scan, in the order of the scan; after one has held the scan goes on
\* with the buffer line 119 has set.
RECURSIVE ScanMatches(_, _, _)
ScanMatches(p, idx, buf) ==
    IF idx < 16
    THEN IF Matches(p, buf, idx)
         THEN <<idx>> \o ScanMatches(p, idx + 1, EndBuffer(p, 0))
         ELSE ScanMatches(p, idx + 1, buf)
    ELSE <<>>

\* Faulty variant: the loop condition compares with entry 1 of the table.
LoopCondition_WrongEntry(p, buf) == buf # EndBuffer(p, 1)

\* Faulty variant: the loop condition is buffer > seed.
LoopCondition_GreaterThan(p, buf) == buf > EndBuffer(p, 0)

\* line 104: buffer != _end_buffers[index][0]
LoopCondition(p, buf) == buf # EndBuffer(p, 0)

-----------------------------------------------------------------------------
(* The base station's forward LFSR: the transition lines 106-113 undo.     *)
(* S' = ((S << 1) | parity(S & polynomial)) & 0x1FFFF                      *)

ForwardStep(p, S) == LowBits(S * 2 + CumulativeSum(0, S, p), 17)

\* One full cycle of a 17-bit LFSR that visits every non-zero state.
Period == 2 ^ 17 - 1

-----------------------------------------------------------------------------
(* State machine *)

\* Bits above the 17 of the register that an argument may carry: none,
\* bit 17, bit 20, bit 21, bit 30.
HighBits == {0, 2 ^ 17, 2 ^ 20, 2 ^ 21, 2 ^ 30}

\* low is below 2^17 and hi has no bit below bit 17
WithHighBits(low, hi) == low + hi

Low17(b) == LowBits(b, 17)

IsTableEntry(p, S) == \E idx \in 0..15 : S = EndBuffer(p, idx)

\* line 98-103: the locals at entry
Enter(b) ==
    /\ bits' = b
    /\ count' = 0
    /\ buffer' = MaskInput(b)
    /\ result' = 0
    /\ n' = 0
    /\ matched' = <<>>
    /\ pc' = "loop"

Init ==
    /\ index \in 0..3
    /\ s = 0
    /\ X = EndBuffer(index, 0)
    /\ pc = "gen"
    /\ bits = 0
    /\ buffer = 0
    /\ count = 0
    /\ result = 0
    /\ n = 0
    /\ ret = 0
    /\ matched = <<>>
    /\ prev = <<>>

\* The base station advances its register by one clock step.
Forward ==
    /\ pc = "gen"
    /\ s' = (s + 1) % Period
    /\ X' = ForwardStep(index, X)
    /\ UNCHANGED <<index, pc, bits, buffer, count, result, n, ret, matched, prev>>

\* reverse_count_p(index, X) on a register state of the cycle.
Call ==
    /\ pc = "gen"
    /\ \/ s % 8192 <= Window
       \/ IsTableEntry(index, X)
       \/ s = Period - 1
    /\ Enter(X)
    /\ UNCHANGED <<index, s, X, ret, prev>>

\* reverse_count_p(index, bits) with bits above the 17 of the register set.
CallHighBits ==
    /\ pc = "gen"
    /\ s <= Window
    /\ \E hi \in HighBits \ {0} : Enter(WithHighBits(X, hi))
    /\ UNCHANGED <<index, s, X, ret, prev>>

\* reverse_count_p(index, bits) with the low 17 bits of bits all zero: a
\* value that is on no cycle of the register.
CallZero ==
    /\ pc = "gen"
    /\ s = 0
    /\ \E hi \in HighBits : Enter(WithHighBits(0, hi))
    /\ UNCHANGED <<index, s, X, ret, prev>>

\* lines 104-121: the loop condition holds, one pass through the body.
LoopStep ==
    /\ pc = "loop"
    /\ LoopCondition(index, buffer)
    /\ n < MaxIter
    /\ result' = 0
    /\ \E stepped \in {ReverseStep(index, buffer, result)} :
           /\ \E scanned \in {CheckpointScan(index, 1, count + 1, stepped)} :
                  /\ count' = scanned[1]
                  /\ buffer' = scanned[2]
           /\ matched' = matched \o ScanMatches(index, 1, stepped)
    /\ n' = n + 1
    /\ UNCHANGED <<index, s, X, pc, bits, ret, prev>>

\* lines 104, 123: the loop condition fails, return count.
Return ==
    /\ pc = "loop"
    /\ ~LoopCondition(index, buffer)
    /\ ret' = count
    /\ pc' = "done"
    /\ UNCHANGED <<index, s, X, bits, buffer, count, result, n, matched, prev>>

Next ==
    \/ Forward
    \/ Call
    \/ CallHighBits
    \/ CallZero
    \/ LoopStep
    \/ Return

Spec == Init /\ [][Next]_vars

-----------------------------------------------------------------------------
(* Two calls in one run, to compare their results *)

RECURSIVE ForwardN(_, _, _)
ForwardN(p, S, j) == IF j = 0 THEN S ELSE ForwardN(p, ForwardStep(p, S), j - 1)

\* The register state one step before the seed: the last of the cycle.
LastState(p) == ReverseStep(p, EndBuffer(p, 0), 0)

\* Register states 1..PairWindow forward steps after an entry of the table,
\* and the seed itself.
NearTable(p) ==
    {ForwardN(p, EndBuffer(p, idx), j) : idx \in 0..15, j \in 1..PairWindow}
        \cup {EndBuffer(p, 0)}

PairInputs(p) == NearTable(p) \cup {LastState(p)}

\* The first call of the run.
FirstCall ==
    /\ pc = "gen"
    /\ \E b \in PairInputs(index) : Enter(b)
    /\ UNCHANGED <<index, s, X, ret, prev>>

\* A second call, after the first has returned: on another register state
\* near the table, or on the first argument with high bits added.
SecondCall ==
    /\ pc = "done"
    /\ prev = <<>>
    /\ \E b \in NearTable(index) \cup {WithHighBits(bits, hi) : hi \in HighBits} :
           Enter(b)
    /\ prev' = <<bits, ret>>
    /\ UNCHANGED <<index, s, X, ret>>

NextPair ==
    \/ FirstCall
    \/ SecondCall
    \/ LoopStep
    \/ Return

SpecPair == Init /\ [][NextPair]_vars

-----------------------------------------------------------------------------
(* One forward step and one reverse step on every value of the register *)

\* The 2^17 values of a 17-bit register, zero included.
States == 0..Period

\* X is the register value S the run starts from; buffer is the register
\* after the steps applied so far.
InitStep ==
    /\ index \in 0..3
    /\ X \in States
    /\ buffer = X
    /\ pc = "state"
    /\ s = 0
    /\ bits = X
    /\ count = 0
    /\ result = 0
    /\ n = 0
    /\ ret = 0
    /\ matched = <<>>
    /\ prev = <<>>

\* The forward step, on S or on the outcome of a reverse step.
StepForward ==
    /\ pc \in {"state", "reverse"}
    /\ buffer' = ForwardStep(index, buffer)
    /\ pc' = IF pc = "state" THEN "forward" ELSE "reverse-forward"
    /\ UNCHANGED <<index, s, X, bits, count, result, n, ret, matched, prev>>

\* lines 106-114: the reverse step of the loop body, on S or on the outcome
\* of a forward step; result is 0 before and after.
StepReverse ==
    /\ pc \in {"state", "forward"}
    /\ buffer' = ReverseStep(index, buffer, result)
    /\ result' = 0
    /\ pc' = IF pc = "state" THEN "reverse" ELSE "forward-reverse"
    /\ UNCHANGED <<index, s, X, bits, count, n, ret, matched, prev>>

NextStep ==
    \/ StepForward
    \/ StepReverse

SpecStep == InitStep /\ [][NextStep]_vars

-----------------------------------------------------------------------------
(* Properties *)

\* The argument of the call is the generator's register state: a state on
\* the cycle of the selected polynomial, s forward steps after the seed.
OnCycleCall == pc # "gen" /\ bits = X

\* C1: for the register state X reached by s forward steps from the seed
\* under polynomial index, reverse_count_p(index, X) returns exactly s.
C1_StepCountRecovered == (pc = "done" /\ OnCycleCall) => ret = s

\* A call on the last state of the cycle has returned through a checkpoint.
C1_Witness == pc = "done" /\ OnCycleCall /\ s = Period - 1 /\ ret = s /\ n < ret

\* C2 as stated: reverse_count_p(index, _end_buffers[index][k]) returns
\* k * 8192 for every k in 1..15.
C2_CheckpointReturnsMultiple ==
    \A k \in 1..15 : (pc = "done" /\ bits = EndBuffer(index, k)) => ret = k * 8192

\* C2 as amended: reverse_count_p(index, _end_buffers[index][k]) returns
\* k * 8192 - 1 for every k in 1..15.
C2_CheckpointReturnsPosition ==
    \A k \in 1..15 : (pc = "done" /\ bits = EndBuffer(index, k)) => ret = k * 8192 - 1

\* The call on entry 15 of table 3 has returned.
C2_Witness == pc = "done" /\ index = 3 /\ bits = EndBuffer(3, 15) /\ ret = 15 * 8192 - 1

\* C3: for k in 1..15, the state 8192 * k forward steps after the seed makes
\* reverse_count_p return 8192 * k.
C3_RoundTripAtMultiples ==
    \A k \in 1..15 : (pc = "done" /\ OnCycleCall /\ s = 8192 * k) => ret = 8192 * k

\* Polynomial 0, 8192 forward steps from the seed, and the call returned 8192.
C3_Witness == pc = "done" /\ OnCycleCall /\ index = 0 /\ s = 8192 /\ ret = 8192

\* C4: reverse_count_p(index, 1) makes no pass through the loop and returns 0.
C4_SeedIdentity ==
    (pc # "gen" /\ bits = 1) => (n = 0 /\ count = 0 /\ (pc = "done" => ret = 0))

\* The call on the seed under polynomial 3 has returned.
C4_Witness == pc = "done" /\ index = 3 /\ bits = 1 /\ ret = 0 /\ n = 0

\* C5: a call on a state of the cycle makes at most 8192 passes through the
\* loop body.
C5_BoundedWork == OnCycleCall => n <= 8192

\* A call on a state of the cycle has returned after exactly 8192 passes.
C5_Witness == pc = "done" /\ OnCycleCall /\ n = 8192

\* C6: a call whose argument has non-zero low 17 bits returns: every pass
\* through the body adds one to n, and as long as the loop condition holds
\* fewer than 8192 passes have been made, so the condition fails, and the
\* call returns, after 8192 passes at the latest.
C6_Terminates ==
    (pc = "loop" /\ Low17(bits) # 0 /\ LoopCondition(index, buffer)) => n < 8192

\* A call with a bit above the register set has returned after a full
\* stretch of passes.
C6_Witness == pc = "done" /\ Low17(bits) # 0 /\ bits >= 2 ^ 17 /\ n = 8192

\* C7: a call whose argument has its low 17 bits all zero never returns; from
\* the first pass on the buffer is 0, the loop condition holds and every
\* pass adds one to count.
C7_ZeroNeverReturns ==
    (pc # "gen" /\ Low17(bits) = 0) =>
        /\ pc = "loop"
        /\ LoopCondition(index, buffer)
        /\ count = n
        /\ (n >= 1 => buffer = 0)

\* A call on a word with only bit 17 set is still in the loop after MaxIter
\* passes.
C7_Witness == pc = "loop" /\ bits = 2 ^ 17 /\ n = MaxIter /\ buffer = 0

\* C8 as stated: reverse_count_p(index, bits) equals
\* reverse_count_p(index, bits & 0x1FFFF).
C8_HighBitsIgnored ==
    (pc = "done" /\ prev # <<>> /\ prev[1] = Low17(bits)) => ret = prev[2]

\* C9: on a non-zero 17-bit state the returned count is in 0 .. Period - 1,
\* and two distinct such states never return the same count.
C9_UniqueStepCount ==
    (pc = "done" /\ bits < 2 ^ 17) =>
        /\ ret \in 0..(Period - 1)
        /\ (prev # <<>> /\ prev[1] # bits) => ret # prev[2]

\* Two calls on distinct states have returned, the first with the largest
\* count there is.
C9_Witness ==
    /\ pc = "done"
    /\ prev # <<>>
    /\ prev[1] # bits
    /\ bits < 2 ^ 17
    /\ prev[2] = Period - 1
    /\ ret = 8192 * 15 + 1

\* Forward steps from the seed at which entry k of the table is reached.
TablePosition(k) == IF k = 0 THEN 0 ELSE 8192 * k - 1

\* C10 as stated: entry k of _end_buffers[index] is the state k * 8192
\* forward steps after the seed.
C10_EntryAtMultiple ==
    \A k \in 0..15 : (pc = "gen" /\ s = 8192 * k) => X = EndBuffer(index, k)

\* C10 as amended: entry 0 is the seed and entry k, k in 1..15, is the state
\* k * 8192 - 1 forward steps after the seed, and no other state of the cycle.
C10_EntryAtPosition ==
    \A k \in 0..15 : pc = "gen" => (s = TablePosition(k) <=> X = EndBuffer(index, k))

\* The generator stands on entry 15 of table 2.
C10_Witness == pc = "gen" /\ index = 2 /\ s = 15 * 8192 - 1 /\ X = EndBuffer(2, 15)

\* C11: when the buffer equals entry k (1 <= k <= 15) of the table after a
\* reverse step, the call returns k * 8192 - 1 whatever the number of reverse
\* steps made before the match.
C11_ShortcutReplacesCounter ==
    \A k \in 1..15 : (pc = "done" /\ matched = <<k>>) => ret = k * 8192 - 1

\* C11: when the buffer equals entry k (1 <= k <= 15) of the table after a
\* reverse step, the call returns n + k * 8192 - 1, n being the number of
\* reverse steps made up to and including the one that produced the match:
\* the adjustment is added to the loop counter.
C11_ShortcutAddsToCounter ==
    \A k \in 1..15 : (pc = "done" /\ matched = <<k>>) => ret = n + k * 8192 - 1

C11_Witness ==
    pc = "done" /\ OnCycleCall /\ matched = <<3>> /\ n = 5 /\ ret = 3 * 8192 + 4

\* C12: a call that returns after n reverse steps returns n when no entry of
\* the table matched, and n + 8192 * k - 1 for the one index k in 1..15 that
\* matched after the n-th step; at most one adjustment is made in a call, and
\* no reverse step is made after a match.
C12_ResultShape ==
    /\ pc # "gen" => Len(matched) <= 1
    /\ (pc = "loop" /\ matched # <<>>) => ~LoopCondition(index, buffer)
    /\ (pc # "gen" /\ matched = <<>>) => count = n
    /\ pc = "done" =>
           \/ matched = <<>> /\ ret = n
           \/ /\ Len(matched) = 1
              /\ matched[1] \in 1..15
              /\ ret = n + 8192 * matched[1] - 1

C12_Witness ==
    /\ pc = "done"
    /\ Len(matched) = 1
    /\ n = 8192
    /\ bits < 2 ^ 17
    /\ ret = n + 8192 * matched[1] - 1

\* C13: for every polynomial and every 17-bit register value S, the forward
\* step followed by the reverse step of lines 106-113 gives S back, and the
\* reverse step followed by the forward step gives S back; both steps stay
\* within the 17-bit values, so the reverse step is a bijection on them.
C13_ReverseInvertsForward ==
    /\ buffer \in States
    /\ pc \in {"forward-reverse", "reverse-forward"} => buffer = X

C13_Witness ==
    pc = "forward-reverse" /\ index = 3 /\ X = 2 ^ 17 - 1 /\ buffer = X

\* C14: whatever the 32-bit argument, the buffer is below 2^21 in every
\* state of the loop and below 2^17 after every completed reverse step (a
\* checkpoint match included); result is 0 at the start of every pass, so
\* the bit put in at position 16 is 0 or 1.
C14_RegisterWidth ==
    /\ buffer < 2 ^ 21
    /\ result = 0
    /\ (pc # "gen" /\ n = 0) => buffer = bits % 2 ^ 21
    /\ (pc # "gen" /\ n >= 1) => buffer < 2 ^ 17

C14_Witness ==
    /\ pc = "loop"
    /\ n = 1
    /\ bits = 2 ^ 20 + 1
    /\ buffer = 2 ^ 16

\* C15: for each of the four tap masks the forward step (and so the reverse
\* step) started at the seed 1 comes back to the seed after exactly
\* 2^17 - 1 = 16 * 8192 - 1 steps and not before, passing through non-zero
\* 17-bit values only: the cycle holds every non-zero 17-bit value once.
C15_MaximalPeriod ==
    pc = "gen" =>
        /\ Period = 16 * 8192 - 1
        /\ X \in 1..Period
        /\ X = EndBuffer(index, 0) <=> s = 0
        /\ ReverseStep(index, X, 0) = EndBuffer(index, 0) <=> s = 1

C15_Witness ==
    /\ pc = "gen"
    /\ index = 1
    /\ s = Period - 1
    /\ ForwardStep(index, X) = EndBuffer(index, 0)

\* C16: for each polynomial the 16 entries of its row of _end_buffers are
\* pairwise distinct, non-zero and below 2^17, entry 0 is 1 and no entry
\* 1..15 is 1, so at most one idx in 1..15 matches a buffer value in the scan.
\* The row of the table is a constant of the run: it is examined in the
\* states where the generator stands at the seed, which exist for each of
\* the four polynomials; the scan is examined in every state where the
\* buffer has matched an entry.
C16_TableWellFormed ==
    /\ (pc = "gen" /\ s = 0) =>
           /\ EndBuffer(index, 0) = 1
           /\ \A idx \in 1..15 : EndBuffer(index, idx) \in 2..(2 ^ 17 - 1)
           /\ \A i \in 0..15 : \A j \in 0..15 :
                  i # j => EndBuffer(index, i) # EndBuffer(index, j)
    /\ Len(matched) <= 1
    /\ matched # <<>> =>
           \A idx \in 1..15 :
               Matches(index, EndBuffer(index, matched[1]), idx) => idx = matched[1]

C16_Witness ==
    /\ pc = "done"
    /\ index = 2
    /\ bits = ForwardStep(2, EndBuffer(2, 15))
    /\ matched = <<15>>
====
